---- MODULE Spec2Model ----
(***************************************************************************)
(* BitString: reading and writing bit fields of up to 32 bits at any bit  *)
(* offset of a byte buffer, in little endian or big endian layout.         *)
(*                                                                         *)
(* Two revisions of the codec live in the repository: the library          *)
(* (ReadBitString / WriteBitString / SetSingleBit, which clamp an          *)
(* oversized bit size) and the standalone program BitString.cpp (whose     *)
(* ReadBitString / WriteBitString throw std::invalid_argument instead).    *)
(*                                                                         *)
(* Representation.  TLC's integers are 32-bit signed, so                   *)
(*   - a uint32_t / uint64_t is held as its bits, a function from the bit  *)
(*     number (0 = least significant) to BOOLEAN;                          *)
(*   - a size_t (64 bits) is held as four 16-bit limbs, least significant  *)
(*     first, with the arithmetic done modulo 2^64;                        *)
(*   - a buffer is a function from the byte index 0..n-1 to 0..255.        *)
(*                                                                         *)
(* Specifications.  Spec makes one call on one buffer; SpecTests runs the   *)
(* loops of the library's test program; SpecThreads runs two calls on one   *)
(* buffer with their loads and stores interleaved.                          *)
(***************************************************************************)
EXTENDS Integers, FiniteSets, Sequences, TLC

\* ---------------------------------------------------------------- bounds
\* Longest buffer of a generated test program, in bytes.
MaxTestLen == 4
\* Length of the buffer concurrent calls share, in bytes.
SharedLen == 3
\* Longest buffer, in bytes (5 bytes hold a misaligned 32-bit field).
MaxLen == 5
\* How many bits past the end of the buffer a bit offset may start.
MaxPast == 8
\* How far below 2^64 the largest bit offsets start (2^64 - 1 ... 2^64 - MaxBack).
MaxBack == 8
\* Largest bit size handed to the codec (sizes above 32 are the oversized ones).
MaxBitSize == 34

\* ------------------------------------------------------ program constants
CHAR_BIT == 8
\* sizeof(LargestDataType) * CHAR_BIT
LargestBits == 32
\* sizeof(uint64_t): the bytes of the scratch register
RegisterBytes == 8
\* std::endian::native of the build the repository is tested on
Native == "little"

\* ------------------------------------------------------------ size_t
LimbBase == 2^16

\* The size_t with the small value n.
SizeT(n) == <<n % LimbBase, n \div LimbBase, 0, 0>>

\* SIZE_MAX - k, for a small k.
SizeMaxMinus(k) == <<LimbBase - 1 - k, LimbBase - 1, LimbBase - 1, LimbBase - 1>>

\* The value of a size_t that fits TLC's integers (its two high limbs are 0).
IsSmall(x) == x[3] = 0 /\ x[4] = 0 /\ x[2] < 2^14
ToNat(x) == x[1] + x[2] * LimbBase

\* x + y modulo 2^64.
AddSizeT(x, y) ==
    LET s1 == x[1] + y[1]
        s2 == x[2] + y[2] + (s1 \div LimbBase)
        s3 == x[3] + y[3] + (s2 \div LimbBase)
        s4 == x[4] + y[4] + (s3 \div LimbBase)
    IN  <<s1 % LimbBase, s2 % LimbBase, s3 % LimbBase, s4 % LimbBase>>

\* Unary minus on an unsigned size_t: 2^64 - x modulo 2^64.
NegSizeT(x) ==
    AddSizeT(<<LimbBase - 1 - x[1], LimbBase - 1 - x[2],
               LimbBase - 1 - x[3], LimbBase - 1 - x[4]>>, SizeT(1))

\* x / d for a small divisor d (long division from the top limb).
DivSizeT(x, d) ==
    LET c4 == x[4]
        c3 == (c4 % d) * LimbBase + x[3]
        c2 == (c3 % d) * LimbBase + x[2]
        c1 == (c2 % d) * LimbBase + x[1]
    IN  <<c1 \div d, c2 \div d, c3 \div d, c4 \div d>>

\* std::min(x, n) for a size_t x and a small n; the result is small.
MinSizeT(x, n) == IF IsSmall(x) /\ ToNat(x) < n THEN ToNat(x) ELSE n

\* static_cast<uint32_t>(x), widened back to size_t.
Low32(x) == <<x[1], x[2], 0, 0>>

\* x & 7
And7(x) == x[1] % 8

Min(a, b) == IF a < b THEN a ELSE b

\* ------------------------------------------------------------ bits
\* Bit j of the byte b.
Bit(b, j) == (b \div 2^j) % 2 = 1

\* The byte whose bit j is bits[base + j].
ByteOf(bits, base) ==
      (IF bits[base]     THEN 1   ELSE 0) + (IF bits[base + 1] THEN 2   ELSE 0)
    + (IF bits[base + 2] THEN 4   ELSE 0) + (IF bits[base + 3] THEN 8   ELSE 0)
    + (IF bits[base + 4] THEN 16  ELSE 0) + (IF bits[base + 5] THEN 32  ELSE 0)
    + (IF bits[base + 6] THEN 64  ELSE 0) + (IF bits[base + 7] THEN 128 ELSE 0)

\* The uint32_t with the value n < 2^31.
Bits32(n) == [i \in 0..(LargestBits - 1) |-> i < 31 /\ (n \div 2^i) % 2 = 1]

\* v & ((1 << w) - 1) on a uint32_t.
LowBits(v, w) == [i \in 0..(LargestBits - 1) |-> i < w /\ v[i]]

\* data.size_bytes()
SizeBytes(data) == Cardinality(DOMAIN data)

\* ------------------------------------------------------------ the codec
\* The slip of rounding the end of the span down instead of up.
ByteSpanShort(data, bitOffset, bitSize) ==
    LET dataByteSize == SizeBytes(data)
        begin == MinSizeT(DivSizeT(bitOffset, CHAR_BIT), dataByteSize)
        end   == MinSizeT(DivSizeT(AddSizeT(bitOffset, SizeT(bitSize)), CHAR_BIT), dataByteSize)
    IN  [begin |-> begin, end |-> end,
         wrapped |-> end < begin,
         size |-> IF end < begin THEN 0 ELSE end - begin]

\* const size_t dataByteOffsetBegin = std::min(bitOffset / CHAR_BIT, dataByteSize);
\* const size_t dataByteOffsetEnd = std::min((bitOffset + bitSize + 7) / CHAR_BIT, dataByteSize);
\* const size_t elementByteSize = dataByteOffsetEnd - dataByteOffsetBegin;
\* elementByteSize is a size_t: when End < Begin the difference wraps to 2^64 - (Begin - End),
\* recorded as wrapped.
ByteSpan(data, bitOffset, bitSize) ==
    LET dataByteSize == SizeBytes(data)
        begin == MinSizeT(DivSizeT(bitOffset, CHAR_BIT), dataByteSize)
        end   == MinSizeT(DivSizeT(AddSizeT(bitOffset, SizeT(bitSize + 7)), CHAR_BIT), dataByteSize)
    IN  [begin |-> begin, end |-> end,
         wrapped |-> end < begin,
         size |-> IF end < begin THEN 0 ELSE end - begin]

\* const size_t endiannessAdjustment = isBeHardware ? sizeof(value.asBytes) - elementByteSize : 0;
EndiannessAdjustment(native, elementByteSize) ==
    IF native = "big" THEN RegisterBytes - elementByteSize ELSE 0

\* value = {}; memcpy(value.asBytes + endiannessAdjustment, data.data() + dataByteOffsetBegin, elementByteSize);
LoadRegister(native, data, begin, elementByteSize) ==
    LET adj == EndiannessAdjustment(native, elementByteSize)
    IN  [i \in 0..(RegisterBytes - 1) |->
            IF adj <= i /\ i < adj + elementByteSize THEN data[begin + (i - adj)] ELSE 0]

\* The slip of reversing the whole register instead of the bytes loaded.
ReverseBytesWhole(asBytes, elementByteSize) ==
    [i \in 0..(RegisterBytes - 1) |-> asBytes[RegisterBytes - 1 - i]]

\* std::reverse(value.asBytes, value.asBytes + elementByteSize);
ReverseBytes(asBytes, elementByteSize) ==
    [i \in 0..(RegisterBytes - 1) |->
        IF i < elementByteSize THEN asBytes[elementByteSize - 1 - i] ELSE asBytes[i]]

\* The byte of value.asBytes that holds bits 8i..8i+7 of value.asUint64 on the host.
ByteIndex(native, i) == IF native = "big" THEN RegisterBytes - 1 - i ELSE i

\* Reading value.asUint64 after the bytes were written through value.asBytes.
AsUint64(native, asBytes) ==
    [k \in 0..(RegisterBytes * CHAR_BIT - 1) |->
        Bit(asBytes[ByteIndex(native, k \div CHAR_BIT)], k % CHAR_BIT)]

\* Reading value.asBytes after value.asUint64 was assigned.
AsBytes(native, asUint64) ==
    [i \in 0..(RegisterBytes - 1) |-> ByteOf(asUint64, CHAR_BIT * ByteIndex(native, i))]

\* The slip of never swapping the bytes.
NormalizedRegisterNoSwap(native, data, begin, elementByteSize, endianness) ==
    LoadRegister(native, data, begin, elementByteSize)

\* The register after the load and the swap to the host's byte order.
NormalizedRegister(native, data, begin, elementByteSize, endianness) ==
    LET loaded == LoadRegister(native, data, begin, elementByteSize)
    IN  IF endianness # native THEN ReverseBytes(loaded, elementByteSize) ELSE loaded

\* The slip of negating the offset alone and adding the bit size afterwards.
ShiftAmountNegateOffsetOnly(bitOffset, bitSize, endianness) ==
    LET bitOffset32Bit == Low32(bitOffset)
    IN  IF endianness = "big"
        THEN And7(AddSizeT(NegSizeT(bitOffset32Bit), SizeT(bitSize)))
        ELSE And7(bitOffset32Bit)

\* The sign slip: the big endian shift taken from the start of the field.
ShiftAmountFromStart(bitOffset, bitSize, endianness) ==
    And7(Low32(bitOffset))

\* const uint32_t bitOffset32Bit = static_cast<uint32_t>(bitOffset);
\* const uint32_t shiftAmount = (isBeData ? -(bitOffset32Bit + bitSize) : bitOffset32Bit) & 7;
ShiftAmount(bitOffset, bitSize, endianness) ==
    LET bitOffset32Bit == Low32(bitOffset)
    IN  IF endianness = "big"
        THEN And7(NegSizeT(AddSizeT(bitOffset32Bit, SizeT(bitSize))))
        ELSE And7(bitOffset32Bit)

\* The slip of returning the shifted register without masking it.
ExtractFieldNoMask(asUint64, shiftAmount, bitSize) ==
    [i \in 0..(LargestBits - 1) |-> asUint64[i + shiftAmount]]

\* const uint64_t elementMask = (uint64_t(1) << bitSize) - 1;
\* value.asUint64 = (value.asUint64 >> shiftAmount) & elementMask;
\* return static_cast<uint32_t>(value.asUint64);
ExtractField(asUint64, shiftAmount, bitSize) ==
    [i \in 0..(LargestBits - 1) |-> i < bitSize /\ asUint64[i + shiftAmount]]

\* The slip of or-ing the new value in without clearing the old one.
MergeFieldKeepOld(oldValue, shiftAmount, bitSize, newValue) ==
    [k \in 0..(RegisterBytes * CHAR_BIT - 1) |->
        \/ oldValue[k]
        \/ k >= shiftAmount /\ k - shiftAmount < LargestBits /\ newValue[k - shiftAmount]]

\* The slip of a mask one bit too wide.
MergeFieldWideMask(oldValue, shiftAmount, bitSize, newValue) ==
    [k \in 0..(RegisterBytes * CHAR_BIT - 1) |->
        \/ oldValue[k] /\ ~(k >= shiftAmount /\ k - shiftAmount < bitSize + 1)
        \/ k >= shiftAmount /\ k - shiftAmount < LargestBits /\ newValue[k - shiftAmount]]

\* const uint64_t elementMask = ~(((uint64_t(1) << bitSize) - 1) << shiftAmount);
\* value.asUint64 = (oldValue & elementMask) | (static_cast<uint64_t>(newValue) << shiftAmount);
MergeField(oldValue, shiftAmount, bitSize, newValue) ==
    [k \in 0..(RegisterBytes * CHAR_BIT - 1) |->
        \/ oldValue[k] /\ ~(k >= shiftAmount /\ k - shiftAmount < bitSize)
        \/ k >= shiftAmount /\ k - shiftAmount < LargestBits /\ newValue[k - shiftAmount]]

\* The slip of copying one byte too few back.
StoreBackOneLess(native, data, begin, elementByteSize, asBytes) ==
    LET adj == EndiannessAdjustment(native, elementByteSize)
    IN  [i \in DOMAIN data |->
            IF begin <= i /\ i < begin + elementByteSize - 1 THEN asBytes[adj + (i - begin)]
            ELSE data[i]]

\* memcpy(data.data() + dataByteOffsetBegin, value.asBytes + endiannessAdjustment, elementByteSize);
StoreBack(native, data, begin, elementByteSize, asBytes) ==
    LET adj == EndiannessAdjustment(native, elementByteSize)
    IN  [i \in DOMAIN data |->
            IF begin <= i /\ i < begin + elementByteSize THEN asBytes[adj + (i - begin)] ELSE data[i]]

\* The byte indices of data a memcpy of the span reads or writes. A wrapped
\* elementByteSize makes the copy run from Begin over the end of the buffer.
Touched(data, span) ==
    IF span.wrapped THEN span.begin..SizeBytes(data)
    ELSE {i \in 0..SizeBytes(data) : span.begin <= i /\ i < span.end}

Zero32 == [i \in 0..(LargestBits - 1) |-> FALSE]

\* The library's ReadBitString. A copy of a wrapped length overruns the buffer
\* and the register: the call does not return (fault).
\* assert(bitSize <= sizeof(LargestDataType) * CHAR_BIT);
\* bitSize = std::min(bitSize, sizeof(LargestDataType) * CHAR_BIT);
ReadBitString(native, data, bitOffset, bitSize0, endianness) ==
    LET bitSize == Min(bitSize0, LargestBits)
        span    == ByteSpan(data, bitOffset, bitSize)
        reg     == NormalizedRegister(native, data, span.begin, span.size, endianness)
        shift   == ShiftAmount(bitOffset, bitSize, endianness)
    IN  [fault    |-> span.wrapped,
         touched  |-> Touched(data, span),
         asserted |-> bitSize0 <= LargestBits,
         value    |-> IF span.wrapped THEN Zero32
                     ELSE ExtractField(AsUint64(native, reg), shift, bitSize)]

\* The library's WriteBitString.
WriteBitString(native, data, bitOffset, bitSize0, endianness, newValue) ==
    LET bitSize == Min(bitSize0, LargestBits)
        span    == ByteSpan(data, bitOffset, bitSize)
        reg     == NormalizedRegister(native, data, span.begin, span.size, endianness)
        shift   == ShiftAmount(bitOffset, bitSize, endianness)
        merged  == AsBytes(native, MergeField(AsUint64(native, reg), shift, bitSize, newValue))
        back    == IF endianness # native THEN ReverseBytes(merged, span.size) ELSE merged
    IN  [fault    |-> span.wrapped,
         touched  |-> Touched(data, span),
         asserted |-> /\ bitSize0 <= LargestBits
                      /\ span.begin <= SizeBytes(data) /\ span.end <= SizeBytes(data),
         data     |-> IF span.wrapped THEN data
                      ELSE StoreBack(native, data, span.begin, span.size, back)]

\* The slip of an off-by-one limit.
BitSizeTooLargeOffByOne(bitSize) == bitSize > LargestBits + 1

\* if (bitSize > sizeof(LargestDataType) * CHAR_BIT) throw std::invalid_argument(...)
BitSizeTooLarge(bitSize) == bitSize > LargestBits

\* The standalone program's ReadBitString: it throws on an oversized bit size
\* before it touches anything, and is the library's otherwise.
ReadBitStringThrowing(native, data, bitOffset, bitSize, endianness) ==
    IF BitSizeTooLarge(bitSize)
    THEN [thrown |-> TRUE, fault |-> FALSE, touched |-> {}, asserted |-> TRUE, value |-> Zero32]
    ELSE [thrown |-> FALSE] @@ ReadBitString(native, data, bitOffset, bitSize, endianness)

\* The standalone program's WriteBitString.
WriteBitStringThrowing(native, data, bitOffset, bitSize, endianness, newValue) ==
    IF BitSizeTooLarge(bitSize)
    THEN [thrown |-> TRUE, fault |-> FALSE, touched |-> {}, asserted |-> TRUE, data |-> data]
    ELSE [thrown |-> FALSE] @@ WriteBitString(native, data, bitOffset, bitSize, endianness, newValue)

\* ------------------------------------------------------------ setting one bit
\* The slip of leaving the bit index as it is when reversedBitsInByte is set.
XorByteMaskNever(bitOffset, reversedBitsInByte) == bitOffset

\* constexpr uint32_t byteMask = CHAR_BIT - 1;
\* bitOffset ^= reversedBitsInByte ? byteMask : 0;
XorByteMask(bitOffset, reversedBitsInByte) ==
    IF reversedBitsInByte
    THEN <<bitOffset[1] - And7(bitOffset) + ((CHAR_BIT - 1) - And7(bitOffset)),
           bitOffset[2], bitOffset[3], bitOffset[4]>>
    ELSE bitOffset

\* The slip of assigning the mask to the byte instead of or-ing it in.
OrBitAssign(byte, k) == 2^k

\* The slip of toggling the bit (^=) instead of setting it.
OrBitToggle(byte, k) == IF Bit(byte, k) THEN byte - 2^k ELSE byte + 2^k

\* byte |= 1 << k
OrBit(byte, k) == IF Bit(byte, k) THEN byte ELSE byte + 2^k

\* byteOffset < data.size_bytes(), for a size_t byteOffset
ByteInRange(data, byteOffset) == IsSmall(byteOffset) /\ ToNat(byteOffset) < SizeBytes(data)

\* The library's SetSingleBit: the byte offset is taken before the bit index is
\* flipped, asserted to be inside the buffer, and tested again before the write.
SetSingleBit(data, bitOffset0, reversedBitsInByte) ==
    LET byteOffset == DivSizeT(bitOffset0, CHAR_BIT)
        inside     == ByteInRange(data, byteOffset)
        bitOffset  == XorByteMask(bitOffset0, reversedBitsInByte)
    IN  [fault    |-> FALSE,
         outside  |-> FALSE,
         asserted |-> inside,
         touched  |-> IF inside THEN {ToNat(byteOffset)} ELSE {},
         data     |-> IF inside
                      THEN [data EXCEPT ![ToNat(byteOffset)] = OrBit(@, And7(bitOffset))]
                      ELSE data]

\* The standalone program's SetBit: assert(bitOffset < data.size_bytes() * CHAR_BIT)
\* is its only test, and data[bitOffset / CHAR_BIT] is written whatever the
\* offset. A write past the end lands outside the buffer (outside); the byte index
\* SizeBytes(data) in touched stands for every index past the end.
SetBit(data, bitOffset0, reversedBitsInByte) ==
    LET bitOffset  == XorByteMask(bitOffset0, reversedBitsInByte)
        byteOffset == DivSizeT(bitOffset, CHAR_BIT)
        inside     == ByteInRange(data, byteOffset)
    IN  [fault    |-> FALSE,
         outside  |-> ~inside,
         asserted |-> inside,
         touched  |-> {MinSizeT(byteOffset, SizeBytes(data))},
         data     |-> IF inside
                      THEN [data EXCEPT ![ToNat(byteOffset)] = OrBit(@, And7(bitOffset))]
                      ELSE data]

\* ------------------------------------------------------------ inputs
\* const uint8_t elementsLe[] = {0x21, 0x43, 0x65, 0x87, 0xA9, 0xCB};
TestBytes == <<33, 67, 101, 135, 169, 203>>

\* The buffers a call is made on: the zero-filled buffers the tests write into
\* and the test's constant bytes, at every length up to MaxLen.
Buffers ==
    UNION {{[i \in 0..(n - 1) |-> 0],
            [i \in 0..(n - 1) |-> TestBytes[(i % Len(TestBytes)) + 1]]} : n \in 0..MaxLen}

Endians == {"little", "big"}

\* 2^32 + k, for a small k: a size_t that does not fit a uint32_t.
SizeOver32(k) == <<k, 0, 1, 0>>

\* The bit offsets tried on a buffer: inside it, up to MaxPast bits past its
\* end, the MaxBack values from 2^32 on, and the last MaxBack values of size_t.
Offsets(buffer) ==
    {SizeT(n) : n \in 0..(CHAR_BIT * SizeBytes(buffer) + MaxPast)}
        \cup {SizeOver32(k) : k \in 0..(MaxBack - 1)}
        \cup {SizeMaxMinus(k) : k \in 0..(MaxBack - 1)}

\* constexpr uint32_t piValue = std::bit_cast<uint32_t>(3.14159265358979323846f);
PiValue == Bits32(1078530011)
Ones32 == [i \in 0..(LargestBits - 1) |-> TRUE]

\* The values written: zero, all ones (which has bits above the field's unless
\* bitSize is 32), and pi cut to the field's bits.
NewValues(bitSize) ==
    {Zero32, Ones32, LowBits(PiValue, bitSize)}

\* ------------------------------------------------------------ the state machine
VARIABLES
    data,     \* the caller's buffer
    before,   \* the buffer as it was when the call was made
    call,     \* the call made: function, revision and arguments
    status,   \* "ready" before the call; then "returned", "invalid_argument" or "fault"
    result,   \* the value ReadBitString returned
    touched,  \* the byte indices of the buffer the call's memcpy read or wrote
    asserted, \* whether the call's assert statements held
    test,     \* the test program that runs (its parameters), if one does
    step,     \* the test program's position: its loop counter
    outputs,  \* the values the test program has read, in order
    threads   \* the calls that run concurrently, each with its position and register

vars == <<data, before, call, status, result, touched, asserted, test, step, outputs, threads>>

\* What only the test programs and the concurrent calls change.
programVars == <<test, step, outputs, threads>>

NoCall == [fn |-> "none", revision |-> "none", bitOffset |-> SizeT(0), bitSize |-> 0,
           endianness |-> "little", newValue |-> Zero32, reversedBitsInByte |-> FALSE]

NoTest == [kind |-> "none"]
NoStep == [phase |-> "none", i |-> 0]
NoThreads == <<>>

Init ==
    /\ data \in Buffers
    /\ before = data
    /\ call = NoCall
    /\ status = "ready"
    /\ result = Zero32
    /\ touched = {}
    /\ asserted = TRUE
    /\ test = NoTest
    /\ step = NoStep
    /\ outputs = <<>>
    /\ threads = NoThreads

StatusOf(r) == IF r.fault THEN "fault" ELSE "returned"

\* uint32_t v = ReadBitString(data, bitOffset, bitSize, endianness);  (library)
CallReadBitString ==
    /\ status = "ready"
    /\ \E bitOffset \in Offsets(data), bitSize \in 0..MaxBitSize, endianness \in Endians :
        LET r == ReadBitString(Native, data, bitOffset, bitSize, endianness)
        IN  /\ call' = [fn |-> "read", revision |-> "library", bitOffset |-> bitOffset,
                        bitSize |-> bitSize, endianness |-> endianness, newValue |-> Zero32,
                        reversedBitsInByte |-> FALSE]
            /\ status' = StatusOf(r)
            /\ result' = r.value
            /\ touched' = r.touched
            /\ asserted' = r.asserted
            /\ UNCHANGED <<data, before>>
            /\ UNCHANGED programVars

\* WriteBitString(data, bitOffset, bitSize, endianness, newValue);  (library)
CallWriteBitString ==
    /\ status = "ready"
    /\ \E bitOffset \in Offsets(data), bitSize \in 0..MaxBitSize, endianness \in Endians :
       \E newValue \in NewValues(bitSize) :
        LET r == WriteBitString(Native, data, bitOffset, bitSize, endianness, newValue)
        IN  /\ call' = [fn |-> "write", revision |-> "library", bitOffset |-> bitOffset,
                        bitSize |-> bitSize, endianness |-> endianness, newValue |-> newValue,
                        reversedBitsInByte |-> FALSE]
            /\ status' = StatusOf(r)
            /\ data' = r.data
            /\ touched' = r.touched
            /\ asserted' = r.asserted
            /\ UNCHANGED <<before, result>>
            /\ UNCHANGED programVars

\* The bit sizes the standalone program is called with: its code is the library's
\* but for the oversized sizes, so the sizes next to the limit and over it.
ThrowingBitSizes == (LargestBits - 1)..MaxBitSize

\* ReadBitString of the standalone program, oversized bit sizes included.
CallReadBitStringThrowing ==
    /\ status = "ready"
    /\ \E bitOffset \in Offsets(data), bitSize \in ThrowingBitSizes, endianness \in Endians :
        LET r == ReadBitStringThrowing(Native, data, bitOffset, bitSize, endianness)
        IN  /\ call' = [fn |-> "read", revision |-> "standalone", bitOffset |-> bitOffset,
                        bitSize |-> bitSize, endianness |-> endianness, newValue |-> Zero32,
                        reversedBitsInByte |-> FALSE]
            /\ status' = IF r.thrown THEN "invalid_argument" ELSE StatusOf(r)
            /\ result' = r.value
            /\ touched' = r.touched
            /\ UNCHANGED <<data, before, asserted>>
            /\ UNCHANGED programVars

\* WriteBitString of the standalone program, oversized bit sizes included.
CallWriteBitStringThrowing ==
    /\ status = "ready"
    /\ \E bitOffset \in Offsets(data), bitSize \in ThrowingBitSizes, endianness \in Endians :
       \E newValue \in {Ones32, PiValue} :
        LET r == WriteBitStringThrowing(Native, data, bitOffset, bitSize, endianness, newValue)
        IN  /\ call' = [fn |-> "write", revision |-> "standalone", bitOffset |-> bitOffset,
                        bitSize |-> bitSize, endianness |-> endianness, newValue |-> newValue,
                        reversedBitsInByte |-> FALSE]
            /\ status' = IF r.thrown THEN "invalid_argument" ELSE StatusOf(r)
            /\ data' = r.data
            /\ touched' = r.touched
            /\ asserted' = r.asserted
            /\ UNCHANGED <<before, result>>
            /\ UNCHANGED programVars

\* uint32_t(1): the value of a set bit
One32 == Bits32(1)

\* The encoding whose bit numbering SetBit follows for a reversedBitsInByte.
EncodingOf(reversedBitsInByte) == IF reversedBitsInByte THEN "big" ELSE "little"

\* The call record of a SetBit: it addresses the one-bit field at bitOffset.
SetBitCall(revision, bitOffset, reversedBitsInByte) ==
    [fn |-> "setbit", revision |-> revision, bitOffset |-> bitOffset, bitSize |-> 1,
     endianness |-> EncodingOf(reversedBitsInByte), newValue |-> One32,
     reversedBitsInByte |-> reversedBitsInByte]

\* SetSingleBit(data, bitOffset, reversedBitsInByte);  (library)
CallSetSingleBit ==
    /\ status = "ready"
    /\ \E bitOffset \in Offsets(data), reversedBitsInByte \in BOOLEAN :
        LET r == SetSingleBit(data, bitOffset, reversedBitsInByte)
        IN  /\ call' = SetBitCall("library", bitOffset, reversedBitsInByte)
            /\ status' = StatusOf(r)
            /\ data' = r.data
            /\ touched' = r.touched
            /\ asserted' = r.asserted
            /\ UNCHANGED <<before, result>>
            /\ UNCHANGED programVars

\* SetBit(data, bitOffset, reversedBitsInByte);  (standalone program). A write
\* outside the buffer is undefined: the call may return or fault.
CallSetBit ==
    /\ status = "ready"
    /\ \E bitOffset \in Offsets(data), reversedBitsInByte \in BOOLEAN :
        LET r == SetBit(data, bitOffset, reversedBitsInByte)
        IN  /\ call' = SetBitCall("standalone", bitOffset, reversedBitsInByte)
            /\ status' \in (IF r.outside THEN {"returned", "fault"} ELSE {"returned"})
            /\ data' = r.data
            /\ touched' = r.touched
            /\ asserted' = r.asserted
            /\ UNCHANGED <<before, result>>
            /\ UNCHANGED programVars

Next ==
    \/ CallReadBitString
    \/ CallWriteBitString
    \/ CallReadBitStringThrowing
    \/ CallWriteBitStringThrowing
    \/ CallSetSingleBit
    \/ CallSetBit

Spec == Init /\ [][Next]_vars

\* ------------------------------------------------------------ the test programs
\* main() of the library's test: each test fills a buffer in a loop (the bits of a
\* mask with SetSingleBit, or a sequence of elements with WriteBitString) and then
\* prints the elements it reads back with ReadBitString. A test is run for one
\* encoding on one buffer (the source runs elementsLe and elementsBe side by side).

\* const uint8_t elementsBe[] = {0x32, 0x16, 0x54, 0x98, 0x7C, 0xBA};
TestBytesBe == <<50, 22, 84, 152, 124, 186>>

\* size_t elementBitOffset = bitOffset + i * bitSize;
ElementBitOffset(bitOffset, i, bitSize) == SizeT(bitOffset + i * bitSize)

\* The slip of writing the element's index plus one.
ElementValueFromOne(pattern, i, bitSize) == Bits32(i + 1)

\* The value written as element i: the source's uint32_t(bitOffset / elementBitSize)
\* ("index"), its piValue cut to the width ("pi"), or all ones and pi in turn
\* ("stripes").
ElementValue(pattern, i, bitSize) ==
    CASE pattern = "index"   -> Bits32(i)
      [] pattern = "pi"      -> LowBits(PiValue, bitSize)
      [] pattern = "stripes" -> IF i % 2 = 0 THEN LowBits(Ones32, bitSize)
                                ELSE LowBits(PiValue, bitSize)

\* constexpr size_t elementCount = sizeof(elementsLe) * CHAR_BIT / elementBitSize;
WholeElements(size, bitSize) == (size * CHAR_BIT) \div bitSize

\* The test of generated bitmasks, on a buffer of size bytes.
BitmaskTest(size, bitSize, endianness, fill) ==
    [kind |-> "bitmasks", size |-> size, bitOffset |-> 0, elementBitSize |-> bitSize,
     elementCount |-> WholeElements(size, bitSize), endianness |-> endianness,
     pattern |-> "none", fill |-> fill, fields |-> <<>>, order |-> <<>>]

\* The test that writes and reads a sequence of elementCount elements.
PackingTest(size, bitOffset, bitSize, elementCount, endianness, pattern) ==
    [kind |-> "packing", size |-> size, bitOffset |-> bitOffset, elementBitSize |-> bitSize,
     elementCount |-> elementCount, endianness |-> endianness,
     pattern |-> pattern, fill |-> "zero", fields |-> <<>>, order |-> <<>>]

\* The test that reads known constant data.
ConstantTest(endianness) ==
    [kind |-> "constant", size |-> Len(TestBytes), bitOffset |-> 0, elementBitSize |-> 12,
     elementCount |-> WholeElements(Len(TestBytes), 12), endianness |-> endianness,
     pattern |-> "none", fill |-> "bytes", fields |-> <<>>, order |-> <<>>]

\* One bit field of a struct: its bit offset, its width and the value stored.
Field(bitOffset, bitSize, value) ==
    [bitOffset |-> bitOffset, bitSize |-> bitSize, value |-> value]

\* The orders in which count writes can follow one another.
Orders(count) ==
    {o \in [1..count -> 1..count] : \A i, j \in 1..count : o[i] = o[j] => i = j}

\* The test that writes the bit fields of a struct of size bytes, one
\* WriteBitString per field in the given order, and reads every field.
FieldsTest(size, fields, order, endianness, fill) ==
    [kind |-> "fields", size |-> size, bitOffset |-> 0, elementBitSize |-> 0,
     elementCount |-> Len(fields), endianness |-> endianness,
     pattern |-> "none", fill |-> fill, fields |-> fields, order |-> order]

\* struct TestStruct { uint32_t a : 13; uint32_t b : 15; uint32_t c : 4; };
\* with .a = 0x321, .b = 0x7FFF, .c = 0x6, as main() writes and reads it: a at
\* bit 0, 13 bits; b at bit 13, 15 bits; c at bit 13+15, 3 bits.
TestStruct == <<Field(0, 13, Bits32(801)), Field(13, 15, Bits32(32767)), Field(28, 3, Bits32(6))>>

\* The widths of the generated bit fields.
FieldBitSizes == {1, 3, 13, 25}

\* The padding bits between two generated bit fields.
FieldGaps == {0, 5}

\* The pairs of bit fields of a struct of size bytes: the second field starts
\* where the first one ends or after the padding, and ends inside the struct.
FieldPairs(size, pattern) ==
    {<<Field(o1, w1, ElementValue(pattern, 0, w1)), Field(o2, w2, ElementValue(pattern, 1, w2))>> :
        <<o1, w1, o2, w2>> \in
            {q \in (0..(size * CHAR_BIT)) \X FieldBitSizes \X (0..(size * CHAR_BIT)) \X FieldBitSizes :
                /\ q[3] - (q[1] + q[2]) \in FieldGaps
                /\ q[3] + q[4] <= size * CHAR_BIT}}

\* The tests main() runs: 19-bit masks in 19 bytes, the constant 12-bit data,
\* the 13-bit increasing sequence in 26 bytes (21-bit in 42 bytes in the older
\* revision), and float32 pi at bit offset 5 of 5 bytes.
SourceTests ==
    UNION {{BitmaskTest(19, 19, e, "zero"),
            ConstantTest(e),
            PackingTest(26, 0, 13, WholeElements(26, 13), e, "index"),
            PackingTest(42, 0, 21, WholeElements(42, 21), e, "index"),
            PackingTest(5, 5, LargestBits, 1, e, "pi")} : e \in Endians}
        \cup {FieldsTest(4, TestStruct, o, e, "zero") : o \in Orders(3), e \in Endians}

\* The same tests at every element width, on the buffers of up to MaxTestLen
\* bytes, for every count of whole elements that fits the buffer.
GeneratedTests ==
    UNION {UNION {
        {BitmaskTest(n, w, e, f) : f \in {"zero", "bytes"}}
            \cup {PackingTest(n, 0, w, c, e, "stripes") : c \in 1..WholeElements(n, w)}
            \cup {PackingTest(n, 0, w, c, e, "pi") : c \in 1..WholeElements(n, w)}
            \cup {PackingTest(n, 0, w, c, e, "index") :
                    c \in {k \in 1..WholeElements(n, w) : w >= 6 \/ k <= 2^w}}
        : e \in Endians} : n \in 1..MaxTestLen, w \in 1..LargestBits}
    \cup UNION {{FieldsTest(n, f, o, e, fill) :
                    f \in FieldPairs(n, "stripes"),
                    o \in Orders(2), e \in Endians, fill \in {"zero", "bytes"}}
                : n \in 1..MaxTestLen}

Tests == SourceTests \cup GeneratedTests

\* The buffer a test starts on.
TestBuffer(t) ==
    [i \in 0..(t.size - 1) |->
        CASE t.fill = "zero" -> 0
          [] t.kind = "constant" /\ t.endianness = "big" -> TestBytesBe[i + 1]
          [] OTHER -> TestBytes[(i % Len(TestBytes)) + 1]]

\* The position after loop iteration i of a loop of count iterations.
NextStep(phase, i, count, after) ==
    IF i + 1 < count THEN [phase |-> phase, i |-> i + 1] ELSE [phase |-> after, i |-> 0]

InitTests ==
    /\ test \in Tests
    /\ data = TestBuffer(test)
    /\ before = data
    /\ call = NoCall
    /\ status = "ready"
    /\ result = Zero32
    /\ touched = {}
    /\ asserted = TRUE
    /\ step = [phase |-> IF test.kind = "constant" THEN "print" ELSE "fill", i |-> 0]
    /\ outputs = <<>>
    /\ threads = NoThreads

\* for (size_t bitOffset = 0, bitCount = sizeof(elementsLe) * CHAR_BIT; bitOffset < bitCount; ++bitOffset)
\*     if ((bitOffset / elementBitSize) & 1) SetSingleBit(elements, bitOffset, reversed);
TestSetSingleBit ==
    /\ test.kind = "bitmasks" /\ step.phase = "fill"
    /\ LET bitOffset == step.i
           reversedBitsInByte == (test.endianness = "big")
       IN  /\ IF (bitOffset \div test.elementBitSize) % 2 = 1
              THEN LET r == SetSingleBit(data, SizeT(bitOffset), reversedBitsInByte)
                   IN  /\ call' = SetBitCall("library", SizeT(bitOffset), reversedBitsInByte)
                       /\ before' = data
                       /\ data' = r.data
                       /\ status' = StatusOf(r)
                       /\ touched' = r.touched
                       /\ asserted' = r.asserted
              ELSE UNCHANGED <<call, before, data, status, touched, asserted>>
           /\ step' = NextStep("fill", bitOffset, test.size * CHAR_BIT, "print")
    /\ UNCHANGED <<result, test, outputs, threads>>

\* for (bitOffset = 0; bitOffset < bitCount; bitOffset += elementBitSize)
\*     WriteBitString(elements, bitOffset, elementBitSize, endianness, value);
TestWriteBitString ==
    /\ test.kind = "packing" /\ step.phase = "fill"
    /\ LET bitOffset == ElementBitOffset(test.bitOffset, step.i, test.elementBitSize)
           value == ElementValue(test.pattern, step.i, test.elementBitSize)
           r == WriteBitString(Native, data, bitOffset, test.elementBitSize, test.endianness, value)
       IN  /\ call' = [fn |-> "write", revision |-> "library", bitOffset |-> bitOffset,
                       bitSize |-> test.elementBitSize, endianness |-> test.endianness,
                       newValue |-> value, reversedBitsInByte |-> FALSE]
           /\ before' = data
           /\ data' = r.data
           /\ status' = StatusOf(r)
           /\ touched' = r.touched
           /\ asserted' = r.asserted
           /\ step' = NextStep("fill", step.i, test.elementCount, "print")
    /\ UNCHANGED <<result, test, outputs, threads>>

\* WriteBitString(wrapStructAsBytes(testStruct), 0,     13, std::endian::native, 0x321);
\* WriteBitString(wrapStructAsBytes(testStruct), 13,    15, std::endian::native, 0x7FFF);
\* WriteBitString(wrapStructAsBytes(testStruct), 13+15, 3,  std::endian::native, 0x6);
\* The statements run in the order the test gives.
TestWriteField ==
    /\ test.kind = "fields" /\ step.phase = "fill"
    /\ LET field == test.fields[test.order[step.i + 1]]
           r == WriteBitString(Native, data, SizeT(field.bitOffset), field.bitSize,
                               test.endianness, field.value)
       IN  /\ call' = [fn |-> "write", revision |-> "library", bitOffset |-> SizeT(field.bitOffset),
                       bitSize |-> field.bitSize, endianness |-> test.endianness,
                       newValue |-> field.value, reversedBitsInByte |-> FALSE]
           /\ before' = data
           /\ data' = r.data
           /\ status' = StatusOf(r)
           /\ touched' = r.touched
           /\ asserted' = r.asserted
           /\ step' = NextStep("fill", step.i, test.elementCount, "print")
    /\ UNCHANGED <<result, test, outputs, threads>>

\* uint32_t aValue = ReadBitString(wrapStructAsBytes(testStruct), 0,     13, std::endian::native);
\* uint32_t bValue = ReadBitString(wrapStructAsBytes(testStruct), 13,    15, std::endian::native);
\* uint32_t cValue = ReadBitString(wrapStructAsBytes(testStruct), 13+15, 3,  std::endian::native);
TestReadField ==
    /\ test.kind = "fields" /\ step.phase = "print"
    /\ LET field == test.fields[step.i + 1]
           r == ReadBitString(Native, data, SizeT(field.bitOffset), field.bitSize, test.endianness)
       IN  /\ call' = [fn |-> "read", revision |-> "library", bitOffset |-> SizeT(field.bitOffset),
                       bitSize |-> field.bitSize, endianness |-> test.endianness,
                       newValue |-> Zero32, reversedBitsInByte |-> FALSE]
           /\ before' = data
           /\ status' = StatusOf(r)
           /\ result' = r.value
           /\ touched' = r.touched
           /\ outputs' = Append(outputs, r.value)
           /\ step' = NextStep("print", step.i, test.elementCount, "done")
    /\ UNCHANGED <<data, asserted, test, threads>>

\* PrintBitStringElements: for (i = 0; i < elementCount; ++i)
\*     elementValue = ReadBitString(data, bitOffset + i * bitSize, bitSize, endianness);
TestReadBitString ==
    /\ test.kind # "fields" /\ step.phase = "print"
    /\ IF step.i < test.elementCount
       THEN LET bitOffset == ElementBitOffset(test.bitOffset, step.i, test.elementBitSize)
                r == ReadBitString(Native, data, bitOffset, test.elementBitSize, test.endianness)
            IN  /\ call' = [fn |-> "read", revision |-> "library", bitOffset |-> bitOffset,
                            bitSize |-> test.elementBitSize, endianness |-> test.endianness,
                            newValue |-> Zero32, reversedBitsInByte |-> FALSE]
                /\ before' = data
                /\ status' = StatusOf(r)
                /\ result' = r.value
                /\ touched' = r.touched
                /\ outputs' = Append(outputs, r.value)
                /\ step' = NextStep("print", step.i, test.elementCount, "done")
       ELSE /\ step' = [phase |-> "done", i |-> 0]
            /\ UNCHANGED <<call, before, status, result, touched, outputs>>
    /\ UNCHANGED <<data, asserted, test, threads>>

NextTests ==
    \/ TestSetSingleBit
    \/ TestWriteBitString
    \/ TestReadBitString
    \/ TestWriteField
    \/ TestReadField

SpecTests == InitTests /\ [][NextTests]_vars

\* ------------------------------------------------------------ concurrent calls
\* Two calls run on one buffer, each on its own thread with its own scratch
\* register. A call's accesses to the buffer are its memcpy from the buffer (load)
\* and, for WriteBitString and SetSingleBit, its memcpy or byte store back (store);
\* what it does to its register in between touches no shared memory.
Threads == {"a", "b"}

ZeroRegister == [i \in 0..(RegisterBytes - 1) |-> 0]

\* The slip of a memcpy with its arguments exchanged: the register is copied over
\* the buffer.
CopyInExchanged(native, d, begin, elementByteSize, reg) ==
    [reg |-> reg, data |-> StoreBack(native, d, begin, elementByteSize, reg)]

\* memcpy(value.asBytes + endiannessAdjustment, data.data() + dataByteOffsetBegin, elementByteSize);
\* what the copy leaves in the register and in the buffer it reads.
CopyIn(native, d, begin, elementByteSize, reg) ==
    [reg |-> LoadRegister(native, d, begin, elementByteSize), data |-> d]

\* The slip of copying one byte too many back.
CopyOutOneMore(native, d, begin, elementByteSize, reg) ==
    StoreBack(native, d, begin, Min(elementByteSize + 1, SizeBytes(d) - begin), reg)

\* memcpy(data.data() + dataByteOffsetBegin, value.asBytes + endiannessAdjustment, elementByteSize);
CopyOut(native, d, begin, elementByteSize, reg) ==
    StoreBack(native, d, begin, elementByteSize, reg)

\* The bytes of the buffer d a call reads and writes: [begin, begin + size).
\* SetSingleBit touches the byte bitOffset / CHAR_BIT, or nothing when that is
\* outside the buffer.
SpanOf(d, c) ==
    IF c.fn = "setbit"
    THEN LET byteOffset == DivSizeT(c.bitOffset, CHAR_BIT)
         IN  IF ByteInRange(d, byteOffset)
             THEN [begin |-> ToNat(byteOffset), size |-> 1]
             ELSE [begin |-> SizeBytes(d), size |-> 0]
    ELSE LET span == ByteSpan(d, c.bitOffset, Min(c.bitSize, LargestBits))
         IN  [begin |-> span.begin, size |-> span.size]

\* The register of a WriteBitString between its two copies: swapped to the
\* host's order, merged with the new value, swapped back.
ModifiedRegister(native, c, reg, elementByteSize) ==
    LET bitSize == Min(c.bitSize, LargestBits)
        swapped == IF c.endianness # native THEN ReverseBytes(reg, elementByteSize) ELSE reg
        shift   == ShiftAmount(c.bitOffset, bitSize, c.endianness)
        merged  == AsBytes(native, MergeField(AsUint64(native, swapped), shift, bitSize, c.newValue))
    IN  IF c.endianness # native THEN ReverseBytes(merged, elementByteSize) ELSE merged

\* The byte of a SetSingleBit with the bit or-ed in.
ModifiedByte(native, c, reg) ==
    LET k == And7(XorByteMask(c.bitOffset, c.reversedBitsInByte))
    IN  [reg EXCEPT ![EndiannessAdjustment(native, 1)] = OrBit(@, k)]

\* The value a ReadBitString returns from its loaded register.
ReturnedValue(native, c, reg, elementByteSize) ==
    LET bitSize == Min(c.bitSize, LargestBits)
        swapped == IF c.endianness # native THEN ReverseBytes(reg, elementByteSize) ELSE reg
        shift   == ShiftAmount(c.bitOffset, bitSize, c.endianness)
    IN  ExtractField(AsUint64(native, swapped), shift, bitSize)

\* The bit sizes of the concurrent calls: a field inside a byte or across two,
\* and one across two or three.
ThreadBitSizes == {3, 10}

\* The bit offsets of the concurrent calls, inside the buffer d: at the start of a
\* byte, in its middle, and two bits before its end.
ThreadBitOffsets(d) == {n \in 0..(CHAR_BIT * SizeBytes(d) - 1) : n % CHAR_BIT \in {0, 3, 6}}

\* The calls that write.
WriterCalls(d) ==
    {[fn |-> "write", revision |-> "library", bitOffset |-> SizeT(n), bitSize |-> w,
      endianness |-> e, newValue |-> LowBits(Ones32, w), reversedBitsInByte |-> FALSE] :
        n \in ThreadBitOffsets(d), w \in ThreadBitSizes, e \in Endians}
    \cup {SetBitCall("library", SizeT(n), r) :
        n \in ThreadBitOffsets(d), r \in BOOLEAN}

\* The calls that read.
ReaderCalls(d) ==
    {[fn |-> "read", revision |-> "library", bitOffset |-> SizeT(n), bitSize |-> w,
      endianness |-> e, newValue |-> Zero32, reversedBitsInByte |-> FALSE] :
        n \in ThreadBitOffsets(d), w \in ThreadBitSizes, e \in Endians}

\* A thread about to make the call c.
ThreadAt(c) ==
    [call |-> c, pc |-> "load", reg |-> ZeroRegister, value |-> Zero32, overlapped |-> FALSE]

\* Another thread is inside its call: it has loaded and is not done.
OtherInside(ts, t) == \E u \in Threads \ {t} : ts[u].pc \notin {"load", "done"}

\* Two writers or two readers start on a shared buffer; thread a is the one with
\* the lower bit offset.
InitThreads ==
    /\ data \in {[i \in 0..(SharedLen - 1) |-> 0],
                 [i \in 0..(SharedLen - 1) |-> TestBytes[(i % Len(TestBytes)) + 1]]}
    /\ before = data
    /\ call = NoCall
    /\ status = "ready"
    /\ result = Zero32
    /\ touched = {}
    /\ asserted = TRUE
    /\ test = NoTest
    /\ step = NoStep
    /\ outputs = <<>>
    /\ \E calls \in {WriterCalls(data), ReaderCalls(data)} :
       \E ca \in calls, cb \in calls :
          /\ ToNat(ca.bitOffset) <= ToNat(cb.bitOffset)
          /\ threads = [t \in Threads |-> ThreadAt(IF t = "a" THEN ca ELSE cb)]

oneShotVars == <<before, call, status, result, touched, asserted, test, step, outputs>>

\* The call's copy of its span of the buffer into its register.
ThreadLoad(t) ==
    /\ threads[t].pc = "load"
    /\ LET c    == threads[t].call
           span == SpanOf(data, c)
           r    == CopyIn(Native, data, span.begin, span.size, threads[t].reg)
       IN  /\ data' = r.data
           /\ threads' = [threads EXCEPT ![t].reg = r.reg,
                                         ![t].pc = IF c.fn = "read" THEN "return" ELSE "modify",
                                         ![t].overlapped = OtherInside(threads, t)]
    /\ UNCHANGED oneShotVars

\* The merge of the new value into the register, or of the bit into the byte.
ThreadModify(t) ==
    /\ threads[t].pc = "modify"
    /\ LET c    == threads[t].call
           span == SpanOf(data, c)
       IN  threads' = [threads EXCEPT
                ![t].reg = IF c.fn = "setbit"
                           THEN (IF span.size = 0 THEN @ ELSE ModifiedByte(Native, c, @))
                           ELSE ModifiedRegister(Native, c, @, span.size),
                ![t].pc = "store"]
    /\ UNCHANGED data
    /\ UNCHANGED oneShotVars

\* The copy of the register back over the call's span of the buffer.
ThreadStore(t) ==
    /\ threads[t].pc = "store"
    /\ LET span == SpanOf(data, threads[t].call)
       IN  data' = CopyOut(Native, data, span.begin, span.size, threads[t].reg)
    /\ threads' = [threads EXCEPT ![t].pc = "done"]
    /\ UNCHANGED oneShotVars

\* ReadBitString's shift, mask and return.
ThreadReturn(t) ==
    /\ threads[t].pc = "return"
    /\ LET c == threads[t].call
       IN  threads' = [threads EXCEPT
                ![t].value = ReturnedValue(Native, c, threads[t].reg, SpanOf(data, c).size),
                ![t].pc = "done"]
    /\ UNCHANGED data
    /\ UNCHANGED oneShotVars

NextThreads ==
    \E t \in Threads :
        \/ ThreadLoad(t)
        \/ ThreadModify(t)
        \/ ThreadStore(t)
        \/ ThreadReturn(t)

SpecThreads == InitThreads /\ [][NextThreads]_vars

\* ------------------------------------------------------------ properties
\* The call's bit offset and bit size as numbers, when the offset is a small one.
CallOffset == ToNat(call.bitOffset)
CallEnd == ToNat(call.bitOffset) + call.bitSize

\* The field [bitOffset, bitOffset + bitSize) lies entirely inside the buffer.
FieldInside ==
    IsSmall(call.bitOffset) /\ CallEnd <= CHAR_BIT * SizeBytes(before)

\* The field starts at a small offset and extends past the end of the buffer.
FieldPastEnd ==
    IsSmall(call.bitOffset) /\ CallEnd > CHAR_BIT * SizeBytes(before)

\* value < 2^bitSize
ValueFits == \A i \in 0..(LargestBits - 1) : i >= call.bitSize => ~call.newValue[i]

\* Bit p of the buffer d, the bit positions numbered in the encoding e.
DataBit(d, e, p) ==
    Bit(d[p \div CHAR_BIT], IF e = "big" THEN 7 - (p % CHAR_BIT) ELSE p % CHAR_BIT)

\* What the call's revision of ReadBitString returns on the buffer d.
ReadBy(revision, native, d, bitOffset, bitSize, endianness) ==
    IF revision = "standalone"
    THEN ReadBitStringThrowing(native, d, bitOffset, bitSize, endianness)
    ELSE ReadBitString(native, d, bitOffset, bitSize, endianness)

\* What the call's revision of WriteBitString leaves of the buffer d.
WriteBy(revision, native, d, bitOffset, bitSize, endianness, newValue) ==
    IF revision = "standalone"
    THEN WriteBitStringThrowing(native, d, bitOffset, bitSize, endianness, newValue)
    ELSE WriteBitString(native, d, bitOffset, bitSize, endianness, newValue)

\* The buffer d followed by zero bytes, long enough to hold the call's field.
ZeroExtended(d) ==
    LET m == (CallEnd + 7) \div CHAR_BIT
    IN  [i \in 0..(m - 1) |-> IF i < SizeBytes(d) THEN d[i] ELSE 0]

\* C1: after a WriteBitString of a value < 2^bitSize to a field of 1..32 bits
\* lying inside the buffer, a ReadBitString with the same bit offset, bit size
\* and endianness returns exactly that value, whatever the buffer held.
RoundTrip ==
    (call.fn = "write" /\ call.bitSize \in 1..LargestBits /\ FieldInside /\ ValueFits)
        => /\ status = "returned"
           /\ LET r == ReadBy(call.revision, Native, data, call.bitOffset, call.bitSize,
                              call.endianness)
              IN  ~r.fault /\ r.value = call.newValue

\* A misaligned 32-bit big endian field (a span of five bytes) was written with
\* pi over the test's bytes.
RoundTripWitness ==
    /\ call.fn = "write" /\ call.revision = "library" /\ status = "returned"
    /\ call.bitSize = LargestBits /\ call.bitOffset = SizeT(5) /\ call.endianness = "big"
    /\ FieldInside /\ ValueFits
    /\ call.newValue = PiValue /\ before[0] = TestBytes[1] /\ data # before

\* C2: a WriteBitString of a value < 2^bitSize to a field of 0..32 bits lying
\* inside the buffer changes no bit of the buffer outside
\* [bitOffset, bitOffset + bitSize), the bits numbered in the call's encoding,
\* and does not change the buffer's length.
WriteFrame ==
    (call.fn = "write" /\ call.bitSize \in 0..LargestBits /\ FieldInside /\ ValueFits)
        => /\ status = "returned"
           /\ DOMAIN data = DOMAIN before
           /\ \A p \in 0..(CHAR_BIT * SizeBytes(before) - 1) :
                (p < CallOffset \/ p >= CallEnd)
                    => DataBit(data, call.endianness, p) = DataBit(before, call.endianness, p)

\* Three bits were cleared in the middle of the byte 0x43 between set bits that
\* stay set: the field is bits 9..11 of the little endian bit stream.
WriteFrameWitness ==
    /\ call.fn = "write" /\ call.revision = "library" /\ status = "returned"
    /\ call.bitSize = 3 /\ call.bitOffset = SizeT(8) /\ call.endianness = "little"
    /\ call.newValue = Zero32 /\ FieldInside
    /\ before[1] = 67 /\ data[1] = 64 /\ data[0] = before[0]

\* C3: a ReadBitString of a field of 1..32 bits lying inside the buffer returns
\* the manual concatenation of the buffer's bits: little endian, result bit i is
\* bit (bitOffset + i) mod 8 of byte (bitOffset + i) div 8; big endian, result
\* bit bitSize - 1 - i is bit 7 - (bitOffset + i) mod 8 of that byte.
ReadIsBitConcatenation ==
    (call.fn = "read" /\ call.bitSize \in 1..LargestBits /\ FieldInside)
        => /\ status = "returned"
           /\ \A i \in 0..(call.bitSize - 1) :
                LET p == CallOffset + i
                IN  IF call.endianness = "big"
                    THEN result[call.bitSize - 1 - i]
                            = Bit(data[p \div CHAR_BIT], 7 - (p % CHAR_BIT))
                    ELSE result[i] = Bit(data[p \div CHAR_BIT], p % CHAR_BIT)

\* The 12-bit big endian field at bit 4 of 21 43 ..., which crosses a byte
\* boundary, was read as 0x143.
ReadIsBitConcatenationWitness ==
    /\ call.fn = "read" /\ call.revision = "library" /\ status = "returned"
    /\ call.bitSize = 12 /\ call.bitOffset = SizeT(4) /\ call.endianness = "big"
    /\ FieldInside /\ data[0] = 33 /\ data[1] = 67
    /\ result = Bits32(323)

\* C4: WriteBitString stores only the low bitSize bits of newValue: it leaves the
\* buffer as the same call with newValue mod 2^bitSize leaves it.
WriteStoresLowBitsOnly ==
    (call.fn = "write" /\ call.bitSize \in 0..LargestBits /\ status = "returned")
        => data = WriteBy(call.revision, Native, before, call.bitOffset, call.bitSize,
                          call.endianness, LowBits(call.newValue, call.bitSize)).data

\* C5: the value ReadBitString returns is < 2^bitSize, for every bit offset
\* inside or outside the buffer and every bit size 0..32.
ReadBelowTwoToBitSize ==
    (call.fn = "read" /\ status = "returned")
        => \A i \in 0..(LargestBits - 1) : i >= call.bitSize => ~result[i]

\* Four bits were read from the byte 0x21, whose bit 5 above the field is set.
ReadBelowTwoToBitSizeWitness ==
    /\ call.fn = "read" /\ call.revision = "library" /\ status = "returned"
    /\ call.bitSize = 4 /\ call.bitOffset = SizeT(0) /\ call.endianness = "little"
    /\ SizeBytes(data) = 1 /\ data[0] = 33 /\ result = Bits32(1)

HostIndependent ==
    /\ (call.fn = "read" /\ status = "returned")
          => result = ReadBy(call.revision, "big", data, call.bitOffset, call.bitSize,
                             call.endianness).value
    /\ (call.fn = "write" /\ status = "returned")
          => data = WriteBy(call.revision, "big", before, call.bitOffset, call.bitSize,
                            call.endianness, call.newValue).data

\* C8: a ReadBitString of a field that extends past the end of the buffer
\* returns what it returns on the buffer extended with zero bytes until the
\* field fits.
ReadPastEndIsZeroExtended ==
    (call.fn = "read" /\ call.bitSize \in 0..LargestBits /\ FieldPastEnd)
        => /\ status = "returned"
           /\ result = ReadBy(call.revision, Native, ZeroExtended(data), call.bitOffset,
                              call.bitSize, call.endianness).value

\* C9: a WriteBitString of a value < 2^bitSize to a field that extends past the
\* end of the buffer leaves each byte of the buffer as the same call leaves it
\* in a copy of the buffer extended to hold the whole field.
WritePastEndIsBestEffort ==
    (call.fn = "write" /\ call.bitSize \in 0..LargestBits /\ FieldPastEnd /\ ValueFits)
        => /\ status = "returned"
           /\ DOMAIN data = DOMAIN before
           /\ LET whole == WriteBy(call.revision, Native, ZeroExtended(before), call.bitOffset,
                                   call.bitSize, call.endianness, call.newValue).data
              IN  \A i \in DOMAIN before : data[i] = whole[i]

\* C10: for every buffer length, bit offset and bit size 0..32, ReadBitString and
\* WriteBitString finish without an error, read and write only byte indices
\* below the buffer's length, and WriteBitString's assertions hold.
MemorySafe ==
    (call.fn \in {"read", "write"} /\ call.bitSize \in 0..LargestBits)
        => /\ status = "returned"
           /\ touched \subseteq {i \in 0..SizeBytes(before) : i < SizeBytes(before)}
           /\ asserted

\* The SetBit call addresses a bit inside the buffer.
BitInside == IsSmall(call.bitOffset) /\ CallOffset < CHAR_BIT * SizeBytes(before)

\* What the call's revision of SetBit leaves of the buffer d.
SetBy(revision, d, bitOffset, reversedBitsInByte) ==
    IF revision = "standalone"
    THEN SetBit(d, bitOffset, reversedBitsInByte)
    ELSE SetSingleBit(d, bitOffset, reversedBitsInByte)

\* C11: after a SetBit with a bit offset below 8 * length, for either value of
\* reversedBitsInByte, the addressed bit is 1 and every other bit of the buffer
\* has the value it had before the call.
SetBitSetsExactlyOneBit ==
    (call.fn = "setbit" /\ BitInside)
        => /\ status = "returned"
           /\ asserted
           /\ DOMAIN data = DOMAIN before
           /\ DataBit(data, call.endianness, CallOffset)
           /\ \A p \in 0..(CHAR_BIT * SizeBytes(before) - 1) :
                p # CallOffset
                    => DataBit(data, call.endianness, p) = DataBit(before, call.endianness, p)

\* Bit 10 with reversed bit numbering, which is bit 5 of the byte 0x43, was set
\* beside the bits of that byte that were set already: 0x43 became 0x63.
SetBitSetsExactlyOneBitWitness ==
    /\ call.fn = "setbit" /\ call.revision = "library" /\ status = "returned"
    /\ call.bitOffset = SizeT(10) /\ call.reversedBitsInByte /\ BitInside
    /\ before[1] = 67 /\ data[1] = 99 /\ data[0] = before[0]

\* C12: a SetBit with a bit offset at or past 8 * length raises no error (its
\* assertion included), writes no byte inside or outside the buffer and leaves
\* the buffer unchanged.
SetBitOutOfRangeIsNoOp ==
    (call.fn = "setbit" /\ ~BitInside)
        => /\ status = "returned"
           /\ asserted
           /\ touched = {}
           /\ data = before

\* C13: SetBit(buf, n, true) leaves the buffer SetBit(buf, (n & ~7) | (7 - (n & 7)), false)
\* leaves, for every n inside the buffer.
SetBitReversal ==
    (call.fn = "setbit" /\ call.reversedBitsInByte /\ BitInside)
        => LET n == CallOffset
               mirrored == (n - (n % CHAR_BIT)) + (7 - (n % CHAR_BIT))
           IN  /\ status = "returned"
               /\ mirrored \div CHAR_BIT = n \div CHAR_BIT
               /\ data = SetBy(call.revision, before, SizeT(mirrored), FALSE).data

\* Bit 17 reversed is bit 22: bit 6 of the third byte of a zero buffer was set.
SetBitReversalWitness ==
    /\ call.fn = "setbit" /\ call.revision = "standalone" /\ status = "returned"
    /\ call.bitOffset = SizeT(17) /\ call.reversedBitsInByte /\ BitInside
    /\ before[2] = 0 /\ data[2] = 64

\* ------------------------------------------------------------ properties of the tests
\* The buffer with the bytes of a sequence.
BufferOf(bytes) == [i \in 0..(Len(bytes) - 1) |-> bytes[i + 1]]

\* The test has printed every element.
TestDone == step.phase = "done" /\ Len(outputs) = test.elementCount

\* as bytes: 00,00,1F,FF,FC,00,00,7F,FF,F0,00,01,FF,FF,C0,00,07,FF,FF
BitmaskBytesBe == <<0, 0, 31, 255, 252, 0, 0, 127, 255, 240, 0, 1, 255, 255, 192, 0, 7, 255, 255>>

\* C14: a SetBit inside the buffer leaves the buffer WriteBitString of the value
\* 1 to the one-bit field at the same offset leaves (little endian for
\* reversedBitsInByte false, big endian for true); and on a zero buffer whose
\* odd-numbered elements had every bit set, ReadBitString of element k in the
\* matching encoding returns 0 for even k and 2^w - 1 for odd k.
SetBitAgreesWithWriteBitString ==
    /\ call.fn = "setbit"
          => data = WriteBitString(Native, before, call.bitOffset, 1,
                                   EncodingOf(call.reversedBitsInByte), One32).data
    /\ (test.kind = "bitmasks" /\ test.fill = "zero")
          => \A k \in 1..Len(outputs) :
                outputs[k] = IF (k - 1) % 2 = 1 THEN LowBits(Ones32, test.elementBitSize)
                             ELSE Zero32

\* The source's test ran to its end with reversed bit numbering: eight 19-bit
\* elements 0, 7FFFF, ... were read from the bytes the source prints.
SetBitAgreesWithWriteBitStringWitness ==
    /\ test = BitmaskTest(19, 19, "big", "zero") /\ TestDone
    /\ Len(outputs) = 8 /\ outputs[2] = Bits32(524287) /\ outputs[7] = Zero32
    /\ data = BufferOf(BitmaskBytesBe)

\* C15: after element i of a sequence of N values < 2^w was written at bit offset
\* i * w for i = 0..N-1 into a zero buffer that holds them, the N elements read at
\* the same offsets with the same encoding are the values written, in order.
SequentialPacking ==
    (test.kind = "packing" /\ test.bitOffset = 0)
        => /\ status # "fault"
           /\ \A k \in 1..Len(outputs) :
                outputs[k] = ElementValue(test.pattern, k - 1, test.elementBitSize)

\* Six 5-bit big endian elements, all ones and pi's low bits in turn, were
\* written into four bytes and read back.
SequentialPackingWitness ==
    /\ test = PackingTest(4, 0, 5, 6, "big", "stripes") /\ TestDone
    /\ outputs[1] = Bits32(31) /\ outputs[2] = Bits32(27) /\ outputs[6] = Bits32(27)

\* LE 12-bit data @0: 321,654,987,CBA
ScenarioAValues == <<Bits32(801), Bits32(1620), Bits32(2439), Bits32(3258)>>

\* C16: ReadBitString of the four 12-bit fields at bit offsets 0, 12, 24, 36 of
\* the bytes 21 43 65 87 A9 CB, little endian, returns 321, 654, 987, CBA (hex),
\* and of the bytes 32 16 54 98 7C BA, big endian, the same four values.
ScenarioA ==
    \A e \in Endians :
        test = ConstantTest(e)
            => /\ data = BufferOf(IF e = "little" THEN <<33, 67, 101, 135, 169, 203>>
                                  ELSE <<50, 22, 84, 152, 124, 186>>)
               /\ test.elementCount = 4
               /\ call.fn = "read" => call.bitOffset = SizeT(12 * (Len(outputs) - 1))
               /\ \A k \in 1..Len(outputs) : outputs[k] = ScenarioAValues[k]

\* The four big endian fields were read, the last one CBA at bit offset 36.
ScenarioAWitness ==
    /\ test = ConstantTest("big") /\ TestDone
    /\ call.fn = "read" /\ call.bitOffset = SizeT(36) /\ call.bitSize = 12
    /\ Len(outputs) = 4 /\ outputs[4] = Bits32(3258)

\* as bytes: 00,20,00,08,80,01,40,00,0A,80,01,38,00,08,20,01,28,80,05,C0,00,1A,80,03,78,00
ScenarioBBytesLe == <<0, 32, 0, 8, 128, 1, 64, 0, 10, 128, 1, 56, 0, 8, 32, 1, 40, 128, 5, 192, 0, 26, 128, 3, 120, 0>>
\* as bytes: 00,00,00,40,04,00,30,02,00,14,00,C0,07,00,40,02,40,14,00,B0,06,00,34,01,C0,0F
ScenarioBBytesBe == <<0, 0, 0, 64, 4, 0, 48, 2, 0, 20, 0, 192, 7, 0, 64, 2, 64, 20, 0, 176, 6, 0, 52, 1, 192, 15>>

\* C17: WriteBitString of the values 0..15 as 13-bit fields at bit offsets 0, 13,
\* ..., 195 of a 26-byte zero buffer leaves the bytes 00 20 00 08 ... 78 00 (little
\* endian) or 00 00 00 40 ... C0 0F (big endian), and reading the 16 fields back
\* returns 0..15.
ScenarioB ==
    \A e \in Endians :
        (test = PackingTest(26, 0, 13, 16, e, "index") /\ step.phase \in {"print", "done"})
            => /\ data = BufferOf(IF e = "little" THEN ScenarioBBytesLe ELSE ScenarioBBytesBe)
               /\ \A k \in 1..Len(outputs) : outputs[k] = Bits32(k - 1)

\* The big endian sequence was written and all 16 values were read back.
ScenarioBWitness ==
    /\ test = PackingTest(26, 0, 13, 16, "big", "index") /\ TestDone
    /\ Len(outputs) = 16 /\ outputs[16] = Bits32(15)
    /\ data[25] = 15 /\ data[3] = 64

\* C18: WriteBitString of the 32-bit value 40490FDB (float32 pi) at bit offset 5
\* of a 5-byte zero buffer leaves the bytes 60 FB 21 09 08 (little endian) or
\* 02 02 48 7E D8 (big endian), and ReadBitString at offset 5, width 32 with the
\* same encoding returns 40490FDB.
ScenarioC ==
    \A e \in Endians :
        (test = PackingTest(5, 5, 32, 1, e, "pi") /\ step.phase \in {"print", "done"})
            => /\ call.bitOffset = SizeT(5) /\ call.bitSize = 32
               /\ data = BufferOf(IF e = "little" THEN <<96, 251, 33, 9, 8>>
                                  ELSE <<2, 2, 72, 126, 216>>)
               /\ \A k \in 1..Len(outputs) : outputs[k] = Bits32(1078530011)

\* Pi was written little endian at bit offset 5 and read back.
ScenarioCWitness ==
    /\ test = PackingTest(5, 5, 32, 1, "little", "pi") /\ TestDone
    /\ call.fn = "read" /\ result = PiValue /\ outputs = <<PiValue>>
    /\ data[0] = 96 /\ data[4] = 8

\* The buffer d after the fields were written one after another from field
\* number i on, in the order of their numbers.
RECURSIVE WrittenInTurn(_, _, _, _)
WrittenInTurn(d, fields, i, endianness) ==
    IF i > Len(fields) THEN d
    ELSE WrittenInTurn(WriteBitString(Native, d, SizeT(fields[i].bitOffset), fields[i].bitSize,
                                      endianness, fields[i].value).data,
                       fields, i + 1, endianness)

\* The fields of the test lie inside the buffer, no two of them share a bit,
\* and every value fits its field.
FieldsDisjointInside ==
    /\ \A i \in 1..Len(test.fields) :
          /\ test.fields[i].bitOffset + test.fields[i].bitSize <= test.size * CHAR_BIT
          /\ test.fields[i].value = LowBits(test.fields[i].value, test.fields[i].bitSize)
    /\ \A i, j \in 1..Len(test.fields) :
          i < j => \/ test.fields[i].bitOffset + test.fields[i].bitSize <= test.fields[j].bitOffset
                   \/ test.fields[j].bitOffset + test.fields[j].bitSize <= test.fields[i].bitOffset

\* Two fields of the test have bits in one byte.
FieldsShareByte ==
    \E i, j \in 1..Len(test.fields) :
        /\ i # j
        /\ test.fields[i].bitSize > 0
        /\ test.fields[i].bitOffset % CHAR_BIT # 0
        /\ test.fields[j].bitOffset + test.fields[j].bitSize = test.fields[i].bitOffset

\* C27: sequential WriteBitString calls to fields of one encoding that lie
\* inside the buffer and share no bit (fields sharing a byte included), with
\* values that fit, commute: written in any order they leave the bytes they
\* leave written in the order of their offsets, no write faults, and
\* ReadBitString of each field returns the value written to it.
DisjointFieldWritesCommute ==
    (test.kind = "fields" /\ FieldsDisjointInside)
        => /\ status # "fault"
           /\ step.phase \in {"print", "done"}
                 => data = WrittenInTurn(TestBuffer(test), test.fields, 1, test.endianness)
           /\ \A k \in 1..Len(outputs) : outputs[k] = test.fields[k].value

\* The source's struct was written c first, then a, then b: the bytes are
\* 21 E3 FF 6F and the fields read back 321, 7FFF and 6.
DisjointFieldWritesCommuteWitness ==
    /\ test = FieldsTest(4, TestStruct, <<3, 1, 2>>, "little", "zero") /\ TestDone
    /\ FieldsDisjointInside /\ FieldsShareByte
    /\ data = BufferOf(<<33, 227, 255, 111>>)
    /\ outputs = <<Bits32(801), Bits32(32767), Bits32(6)>>

\* ------------------------------------------------------------ properties of concurrent calls
\* Every thread has returned from its call.
AllDone == \A t \in Threads : threads[t].pc = "done"

\* The byte spans [begin, begin + size) of the calls of threads t and u on the
\* buffer d do not intersect.
SpansDisjoint(d, t, u) ==
    LET st == SpanOf(d, threads[t].call)
        su == SpanOf(d, threads[u].call)
    IN  st.begin + st.size <= su.begin \/ su.begin + su.size <= st.begin

\* The buffer d after the call c, run alone.
RunAlone(d, c) ==
    IF c.fn = "setbit" THEN SetSingleBit(d, c.bitOffset, c.reversedBitsInByte).data
    ELSE WriteBitString(Native, d, c.bitOffset, c.bitSize, c.endianness, c.newValue).data

\* C19: when two WriteBitString or SetSingleBit calls whose byte spans do not
\* intersect run concurrently, load, modification and store being separate
\* steps interleaved in any order, the final buffer is the buffer the two calls
\* leave when run one after the other, in either order.
DisjointWritersAreSafe ==
    (/\ \A t \in Threads : threads[t].call.fn \in {"write", "setbit"}
     /\ SpansDisjoint(before, "a", "b")
     /\ AllDone)
        => /\ data = RunAlone(RunAlone(before, threads["a"].call), threads["b"].call)
           /\ data = RunAlone(RunAlone(before, threads["b"].call), threads["a"].call)

\* A 10-bit big endian write at bit 3 (bytes 0 and 1) and a SetSingleBit of bit 19
\* (byte 2) both finished; the second loaded its byte while the first was between
\* its load and its store.
DisjointWritersAreSafeWitness ==
    /\ threads # NoThreads /\ AllDone
    /\ threads["a"].call.fn = "write" /\ threads["a"].call.bitOffset = SizeT(3)
    /\ threads["a"].call.bitSize = 10 /\ threads["a"].call.endianness = "big"
    /\ threads["b"].call.fn = "setbit" /\ threads["b"].call.bitOffset = SizeT(19)
    /\ threads["b"].overlapped
    /\ SpansDisjoint(before, "a", "b")
    /\ data[0] # before[0] /\ data[2] # before[2]

\* C20: ReadBitString calls running concurrently on one buffer with no writer
\* leave every byte of the buffer unchanged, and each returns the value it
\* returns when run alone.
ConcurrentReadersAreSafe ==
    (\A t \in Threads : threads[t].call.fn = "read")
        => /\ data = before
           /\ \A t \in Threads :
                threads[t].pc = "done"
                    => threads[t].value
                        = ReadBitString(Native, before, threads[t].call.bitOffset,
                                        threads[t].call.bitSize,
                                        threads[t].call.endianness).value

\* Two reads of overlapping fields of 21 43 65 both returned, the second having
\* loaded while the first was between its load and its return: 0x321 and 0x028.
ConcurrentReadersAreSafeWitness ==
    /\ threads # NoThreads /\ AllDone
    /\ \A t \in Threads : threads[t].call.fn = "read"
    /\ threads["a"].call.bitOffset = SizeT(0) /\ threads["a"].call.bitSize = 10
    /\ threads["a"].call.endianness = "little" /\ threads["a"].value = Bits32(801)
    /\ threads["b"].call.bitOffset = SizeT(3) /\ threads["b"].call.bitSize = 10
    /\ threads["b"].call.endianness = "big" /\ threads["b"].value = Bits32(40)
    /\ threads["b"].overlapped
    /\ data[0] = 33

\* Both threads run WriteBitString with one encoding on fields inside the buffer
\* that share no bit, and the byte spans of the two calls share a byte.
BitDisjointWritersShareByte ==
    /\ threads # NoThreads
    /\ \A t \in Threads :
          /\ threads[t].call.fn = "write"
          /\ ToNat(threads[t].call.bitOffset) + threads[t].call.bitSize
                <= CHAR_BIT * SizeBytes(before)
    /\ threads["a"].call.endianness = threads["b"].call.endianness
    /\ ToNat(threads["a"].call.bitOffset) + threads["a"].call.bitSize
          <= ToNat(threads["b"].call.bitOffset)
    /\ ~SpansDisjoint(before, "a", "b")

\* ReadBitString of the field of each thread's call returns the call's newValue.
BothFieldsReadBack ==
    \A t \in Threads :
        ReadBitString(Native, data, threads[t].call.bitOffset, threads[t].call.bitSize,
                      threads[t].call.endianness).value = threads[t].call.newValue

\* No call loaded its span while the other call was between its load and its
\* store: the two calls ran one after the other.
RanOneAfterTheOther == \A t \in Threads : ~threads[t].overlapped

\* C28 as stated: when two WriteBitString calls to bit-disjoint fields of one
\* encoding whose byte spans share a byte run concurrently, load and store being
\* separate steps, every interleaving ends with both fields reading back the
\* value written to them.
NoLostUpdate ==
    (BitDisjointWritersShareByte /\ AllDone) => BothFieldsReadBack

\* C28: when two WriteBitString calls to bit-disjoint fields of one encoding
\* whose byte spans share a byte run on one buffer, every interleaving in which
\* neither call loads its span between the other call's load and store ends
\* with both fields reading back the value written to them.
NoLostUpdateWhenSerialized ==
    (BitDisjointWritersShareByte /\ AllDone /\ RanOneAfterTheOther) => BothFieldsReadBack

\* Two 3-bit little endian writes at bits 0 and 3 of a zero buffer ran one after
\* the other: byte 0 holds both fields, 0x3F.
NoLostUpdateWhenSerializedWitness ==
    /\ BitDisjointWritersShareByte /\ AllDone /\ RanOneAfterTheOther
    /\ threads["a"].call.bitOffset = SizeT(0) /\ threads["a"].call.bitSize = 3
    /\ threads["b"].call.bitOffset = SizeT(3) /\ threads["b"].call.bitSize = 3
    /\ threads["a"].call.endianness = "little"
    /\ before[0] = 0 /\ data[0] = 63

\* ------------------------------------------------------------ properties of the arithmetic
\* C21: the library's ReadBitString and WriteBitString called with a bit size
\* over 32 behave exactly as the same call with bit size 32: no assertion fails,
\* the read returns the 32-bit field, the write leaves the bytes the 32-bit write
\* leaves, and no other byte is touched.
OversizedBitSizeIsClamped ==
    (call.revision = "library" /\ call.fn \in {"read", "write"} /\ call.bitSize > LargestBits)
        => /\ asserted
           /\ call.fn = "read"
                => LET r == ReadBitString(Native, before, call.bitOffset, LargestBits,
                                          call.endianness)
                   IN  status = StatusOf(r) /\ result = r.value /\ touched = r.touched
           /\ call.fn = "write"
                => LET r == WriteBitString(Native, before, call.bitOffset, LargestBits,
                                           call.endianness, call.newValue)
                   IN  status = StatusOf(r) /\ data = r.data /\ touched = r.touched

\* The byte b with its eight bits in reverse order.
ReverseBitsInByte(b) ==
    ByteOf([j \in 0..(CHAR_BIT - 1) |-> Bit(b, (CHAR_BIT - 1) - j)], 0)

\* The buffer d with the bits inside each byte reversed.
ReverseBitsInBytes(d) == [i \in DOMAIN d |-> ReverseBitsInByte(d[i])]

\* The w-bit reversal of the value v < 2^w.
ReverseBitsOfValue(v, w) == [i \in 0..(LargestBits - 1) |-> i < w /\ v[w - 1 - i]]

\* C22: for every field of 1..32 bits lying inside the buffer, the big endian
\* ReadBitString equals the bit reversal, over the field's width, of the little
\* endian ReadBitString of the buffer with the bits inside each byte reversed.
DoubleReversal ==
    (call.fn = "read" /\ call.endianness = "big" /\ call.bitSize \in 1..LargestBits
        /\ FieldInside)
        => /\ status = "returned"
           /\ result = ReverseBitsOfValue(
                           ReadBy(call.revision, Native, ReverseBitsInBytes(data),
                                  call.bitOffset, call.bitSize, "little").value,
                           call.bitSize)

\* The 12-bit big endian field at bit 4 of 21 43 was read as 0x143, the reversal
\* of the little endian 0xC28 read from 84 C2.
DoubleReversalWitness ==
    /\ call.fn = "read" /\ call.revision = "library" /\ status = "returned"
    /\ call.bitSize = 12 /\ call.bitOffset = SizeT(4) /\ call.endianness = "big"
    /\ SizeBytes(data) = 2 /\ data[0] = 33 /\ data[1] = 67
    /\ ReverseBitsInBytes(data) = BufferOf(<<132, 194>>)
    /\ ReadBitString(Native, ReverseBitsInBytes(data), SizeT(4), 12, "little").value = Bits32(3112)
    /\ result = Bits32(323)

\* The call is a ReadBitString or WriteBitString with a bit size of 0..32.
CodecCall == call.fn \in {"read", "write"} /\ call.bitSize \in 0..LargestBits

\* C23: for every bit offset and every bit size 0..32 the length of the byte span
\* is between 0 and 5, the shift amount is in 0..7 and shift + bitSize <= 40; and
\* when the field lies inside the buffer, shift + bitSize <= 8 * span length, in
\* both encodings.
FieldFitsLoadedWindow ==
    CodecCall
        => LET span  == ByteSpan(before, call.bitOffset, call.bitSize)
               shift == ShiftAmount(call.bitOffset, call.bitSize, call.endianness)
           IN  /\ ~span.wrapped
               /\ span.begin <= span.end
               /\ span.size \in 0..5
               /\ Cardinality(touched) = span.size
               /\ shift \in 0..7
               /\ shift + call.bitSize <= 40
               /\ FieldInside => shift + call.bitSize <= CHAR_BIT * span.size

\* The value of the size_t x modulo 8, from all four of its limbs.
ModEight(x) ==
    ((x[1] % 8) + (LimbBase % 8) * ((x[2] % 8) + (x[3] % 8) + (x[4] % 8))) % 8

\* C24: for every bit offset, those of 2^32 and more included, and every bit size
\* 0..32, the little endian shift is bitOffset mod 8 and the big endian shift is
\* (8 - ((bitOffset + bitSize) mod 8)) mod 8, in ReadBitString and WriteBitString
\* alike.
ShiftAmountIsModular ==
    CodecCall
        => /\ ShiftAmount(call.bitOffset, call.bitSize, "little") = ModEight(call.bitOffset)
           /\ ShiftAmount(call.bitOffset, call.bitSize, "big")
                = (8 - ((ModEight(call.bitOffset) + call.bitSize) % 8)) % 8

\* A 13-bit big endian write at bit offset 2^32 + 5 was made: the shift is 6.
ShiftAmountIsModularWitness ==
    /\ call.fn = "write" /\ call.revision = "library" /\ status = "returned"
    /\ call.bitOffset = SizeOver32(5) /\ call.bitSize = 13 /\ call.endianness = "big"
    /\ ~IsSmall(call.bitOffset)
    /\ ShiftAmount(call.bitOffset, call.bitSize, call.endianness) = 6

\* C25: for every size_t bit offset, those within bitSize + 7 of SIZE_MAX
\* included, and every bit size 0..32, dataByteOffsetBegin <= dataByteOffsetEnd, so
\* that elementByteSize does not underflow and the copy length is at most 5.
ByteSpanDoesNotWrap ==
    CodecCall
        => LET span == ByteSpan(before, call.bitOffset, call.bitSize)
           IN  span.begin <= span.end /\ ~span.wrapped /\ status # "fault"

\* C26: a WriteBitString with bit size 0 leaves every byte of the buffer
\* unchanged, for every bit offset, either encoding and every 32-bit value, and
\* a ReadBitString with bit size 0 returns 0.
ZeroWidthIsInert ==
    (call.fn \in {"read", "write"} /\ call.bitSize = 0)
        => /\ status = "returned"
           /\ data = before
           /\ call.fn = "read" => result = Zero32

====
